---- MODULE Spec2Model ----
(***************************************************************************)
(* Model of src/src/sqlite3.ts: the local sqlite3 client (Sqlite3Client),  *)
(* its transactions (Sqlite3Transaction), the statement executor           *)
(* (executeStmt / executeMultiple), the value codec (valueFromSql /        *)
(* valueToSql) and the error mapper (mapSqliteError).                      *)
(*                                                                         *)
(* Every public method is `async` but contains no `await`, so its body     *)
(* runs to completion synchronously: one action per method.                *)
(*                                                                         *)
(* A record constructor lists its fields in the order in which the field   *)
(* names first occur in this module.  TLC keeps a record in that order, so *)
(* a record written this way is never re-sorted while it is being read by  *)
(* a second worker.                                                        *)
(***************************************************************************)
EXTENDS Integers, Sequences, FiniteSets, TLC

\* ------------------------------------------------------------------------
\* Bounds
\* ------------------------------------------------------------------------
MaxTx == 1          \* Transaction objects the client may create
MaxBatch == 2       \* statements in one batch call
MaxCloseCalls == 2  \* handle.close() calls counted per transaction handle
MaxArgs == 2        \* positional arguments of one statement
MaxSmall == 20      \* the small sample integers are -MaxSmall..MaxSmall
MaxNamed == 2       \* named arguments of one statement

\* ------------------------------------------------------------------------
\* Exact integers (JavaScript bigint): sign and decimal magnitude, most
\* significant digit first, no leading zero, zero is <<0>> and not negative.
\* ------------------------------------------------------------------------
Digits == 0..9

Big(neg, mag) == [neg |-> neg, mag |-> mag]

MagLess(a, b) ==
    \/ Len(a) < Len(b)
    \/ /\ Len(a) = Len(b)
       /\ \E i \in 1..Len(a) :
            /\ a[i] < b[i]
            /\ \A j \in 1..(i - 1) : a[j] = b[j]

\* x < y on exact integers
BigLess(x, y) ==
    IF x.neg /\ ~y.neg THEN TRUE
    ELSE IF ~x.neg /\ y.neg THEN FALSE
    ELSE IF x.neg THEN MagLess(y.mag, x.mag)
    ELSE MagLess(x.mag, y.mag)

minSafeBigint == Big(TRUE,  <<9,0,0,7,1,9,9,2,5,4,7,4,0,9,9,1>>)
maxSafeBigint == Big(FALSE, <<9,0,0,7,1,9,9,2,5,4,7,4,0,9,9,1>>)
minInteger == Big(TRUE,  <<9,2,2,3,3,7,2,0,3,6,8,5,4,7,7,5,8,0,8>>)
maxInteger == Big(FALSE, <<9,2,2,3,3,7,2,0,3,6,8,5,4,7,7,5,8,0,7>>)

\* ------------------------------------------------------------------------
\* Host and engine values, tagged by their JavaScript type
\* ------------------------------------------------------------------------
IntModes == {"number", "bigint", "string"}

Null == [t |-> "null"]
Undefined == [t |-> "undefined"]
BigIntV(b) == [neg |-> b.neg, mag |-> b.mag, t |-> "bigint"]
\* a finite number holding an exact integer; num is "finite", "nan" or "inf"
NumberV(num, b) == [neg |-> b.neg, mag |-> b.mag, t |-> "number", num |-> num]
TextV(s) == [t |-> "string", s |-> s]
BoolV(b) == [b |-> b, t |-> "boolean"]
DateV(num, b) == [neg |-> b.neg, mag |-> b.mag, t |-> "date", num |-> num]
ArrayBufferV(bytes) == [t |-> "arraybuffer", bytes |-> bytes]
BufferV(bytes) == [t |-> "buffer", bytes |-> bytes]

BigOf(v) == Big(v.neg, v.mag)

\* thrown errors: class, code and (for LibsqlError) the class of the cause
NoCause == [class |-> "none", code |-> "none"]
Err(class, code, cause) == [class |-> class, code |-> code, cause |-> cause]
NoErr == Err("none", "none", NoCause)
LibsqlError(code, cause) == Err("LibsqlError", code, cause)
SqliteError(code) == Err("SqliteError", code, NoCause)
RangeError == Err("RangeError", "none", NoCause)
TypeError == Err("TypeError", "none", NoCause)

Ok(v) == [err |-> NoErr, val |-> v]
Throw(e) == [err |-> e, val |-> Null]

\* ""+sqlValue: the base-10 rendering of a bigint
DigitChar(d) == <<"0","1","2","3","4","5","6","7","8","9">>[d + 1]
BigToString(b) ==
    LET ds == [i \in 1..Len(b.mag) |-> DigitChar(b.mag[i])]
    IN IF b.neg THEN <<"-">> \o ds ELSE ds

\* mutant of valueFromSql: the safe range is taken to exclude its two ends
valueFromSql_OffByOne(sqlValue, intMode) ==
    IF sqlValue.t = "bigint" THEN
        IF intMode = "number" THEN
            IF ~BigLess(minSafeBigint, BigOf(sqlValue)) \/ ~BigLess(BigOf(sqlValue), maxSafeBigint)
            THEN Throw(RangeError)
            ELSE Ok(NumberV("finite", BigOf(sqlValue)))
        ELSE IF intMode = "bigint" THEN Ok(sqlValue)
        ELSE IF intMode = "string" THEN Ok(TextV(BigToString(BigOf(sqlValue))))
        ELSE Throw(Err("Error", "none", NoCause))
    ELSE IF sqlValue.t = "buffer" THEN Ok(ArrayBufferV(sqlValue.bytes))
    ELSE Ok(sqlValue)

\* valueFromSql(sqlValue, intMode)
valueFromSql(sqlValue, intMode) ==
    IF sqlValue.t = "bigint" THEN
        IF intMode = "number" THEN
            IF BigLess(BigOf(sqlValue), minSafeBigint) \/ BigLess(maxSafeBigint, BigOf(sqlValue))
            THEN Throw(RangeError)
            ELSE Ok(NumberV("finite", BigOf(sqlValue)))
        ELSE IF intMode = "bigint" THEN Ok(sqlValue)
        ELSE IF intMode = "string" THEN Ok(TextV(BigToString(BigOf(sqlValue))))
        ELSE Throw(Err("Error", "none", NoCause))
    ELSE IF sqlValue.t = "buffer" THEN Ok(ArrayBufferV(sqlValue.bytes))
    ELSE Ok(sqlValue)

\* mutant of valueToSql: undefined is passed on instead of rejected
valueToSql_UndefinedPasses(value) ==
    IF value.t = "number" THEN
        IF value.num # "finite" THEN Throw(RangeError) ELSE Ok(value)
    ELSE IF value.t = "bigint" THEN
        IF BigLess(BigOf(value), minInteger) \/ BigLess(maxInteger, BigOf(value))
        THEN Throw(RangeError)
        ELSE Ok(value)
    ELSE IF value.t = "boolean" THEN
        Ok(BigIntV(Big(FALSE, IF value.b THEN <<1>> ELSE <<0>>)))
    ELSE IF value.t = "arraybuffer" THEN Ok(BufferV(value.bytes))
    ELSE IF value.t = "date" THEN Ok(NumberV(value.num, BigOf(value)))
    ELSE Ok(value)

\* valueToSql(value)
valueToSql(value) ==
    IF value.t = "number" THEN
        IF value.num # "finite" THEN Throw(RangeError) ELSE Ok(value)
    ELSE IF value.t = "bigint" THEN
        IF BigLess(BigOf(value), minInteger) \/ BigLess(maxInteger, BigOf(value))
        THEN Throw(RangeError)
        ELSE Ok(value)
    ELSE IF value.t = "boolean" THEN
        Ok(BigIntV(Big(FALSE, IF value.b THEN <<1>> ELSE <<0>>)))
    ELSE IF value.t = "arraybuffer" THEN Ok(BufferV(value.bytes))
    ELSE IF value.t = "date" THEN Ok(NumberV(value.num, BigOf(value)))
    ELSE IF value.t = "undefined" THEN Throw(TypeError)
    ELSE Ok(value)

\* mapSqliteError(e)
mapSqliteError(e) ==
    IF e.class = "SqliteError"
    THEN LibsqlError(e.code, [class |-> e.class, code |-> e.code])
    ELSE e

\* ------------------------------------------------------------------------
\* The engine (package "libsql"): a handle has the liveness flags `open`
\* and `inTransaction`.  What the engine answers to one call is an input of
\* the model: `out` is "ok" or the way the call fails, `big` selects whether
\* the integers the engine reports lie outside the safe-number range.
\* ------------------------------------------------------------------------
FailOuts == {"prepareErr", "runErr", "runErrRollback"}

Answer(out, big) == [out |-> out, big |-> big]

\* new Database(path, options): throws when the file cannot be opened
DatabaseNew(canOpen) ==
    IF canOpen
    THEN [err |-> NoErr, db |-> [open |-> TRUE, inTransaction |-> FALSE]]
    ELSE [err |-> SqliteError("SQLITE_CANTOPEN"),
          db |-> [open |-> FALSE, inTransaction |-> FALSE]]

\* db.close(): releases the handle; uncommitted work is rolled back
DatabaseClose(db) == [open |-> FALSE, inTransaction |-> FALSE]

\* transactionModeToBegin(mode), from util.js
Modes == {"write", "read", "deferred"}
transactionModeToBegin(mode) ==
    IF mode = "write" THEN "BEGIN IMMEDIATE"
    ELSE IF mode = "read" THEN "BEGIN TRANSACTION READONLY"
    ELSE "BEGIN DEFERRED"

IsBegin(sql) == sql \in {transactionModeToBegin(m) : m \in Modes}
IsEnd(sql) == sql \in {"COMMIT", "ROLLBACK"}

\* what sqlStmt.run reports when nothing was changed
NoInfo == [changes |-> 0, lastInsertRowid |-> Big(FALSE, <<0>>)]

\* one engine call as recorded in the trace of an operation: the method
\* called, its SQL text and bound arguments, whether it returned, the
\* position in a batch of the statement it was made for (0: not in a batch)
\* and, for a run call that returned, the info it reported
Call(call, sql, bind, ok) ==
    [sql |-> sql, call |-> call, bind |-> bind, ok |-> ok, at |-> 0, ret |-> NoInfo]
RunCall(sql, bind, info) == [Call("run", sql, bind, TRUE) EXCEPT !.ret = info]
At(calls, i) == [k \in 1..Len(calls) |-> [calls[k] EXCEPT !.at = i]]
NoBind == [kind |-> "none", vals |-> <<>>]

\* the engine's reason code for a failing call
EngineCode(sql, out) ==
    IF out = "prepareErr" THEN "SQLITE_ERROR"
    ELSE IF out = "runErrRollback" THEN "SQLITE_FULL"
    ELSE IF sql = "INSERT" THEN "SQLITE_CONSTRAINT"
    ELSE "SQLITE_BUSY"

\* db.prepare(sql)
prepare(db, sql, ans) ==
    IF ~db.open THEN TypeError
    ELSE IF ans.out = "prepareErr" THEN SqliteError(EngineCode(sql, ans.out))
    ELSE NoErr

\* sqlStmt.raw(true) throws when the statement does not return data
returnsData(sql) == sql = "SELECT"

unsafeSample == Big(FALSE, <<9,0,0,7,1,9,9,2,5,4,7,4,0,9,9,2>>)
smallSample == Big(FALSE, <<7>>)

\* sqlStmt.columns() and sqlStmt.all(args): one row of one integer column
engineColumns == <<"a">>
all(db, sql, ans) ==
    IF ans.out = "runErr" THEN
        [err |-> SqliteError(EngineCode(sql, ans.out)), db |-> db, rows |-> <<>>]
    ELSE IF ans.out = "runErrRollback" THEN
        [err |-> SqliteError(EngineCode(sql, ans.out)),
         db |-> [db EXCEPT !.inTransaction = FALSE], rows |-> <<>>]
    ELSE [err |-> NoErr, db |-> db,
          rows |-> << <<BigIntV(IF ans.big THEN unsafeSample ELSE smallSample)>> >>]

\* sqlStmt.run(args): BEGIN starts, COMMIT and ROLLBACK end the handle's
\* transaction; the engine refuses a nested BEGIN and an END without BEGIN.
run(db, sql, ans) ==
    IF ans.out = "runErr" THEN
        [err |-> SqliteError(EngineCode(sql, ans.out)), db |-> db, info |-> NoInfo]
    ELSE IF ans.out = "runErrRollback" THEN
        [err |-> SqliteError(EngineCode(sql, ans.out)),
         db |-> [db EXCEPT !.inTransaction = FALSE], info |-> NoInfo]
    ELSE IF IsBegin(sql) /\ db.inTransaction THEN
        [err |-> SqliteError("SQLITE_ERROR"), db |-> db, info |-> NoInfo]
    ELSE IF IsEnd(sql) /\ ~db.inTransaction THEN
        [err |-> SqliteError("SQLITE_ERROR"), db |-> db, info |-> NoInfo]
    ELSE [err |-> NoErr,
          db |-> [db EXCEPT !.inTransaction =
                     IF IsBegin(sql) THEN TRUE ELSE IF IsEnd(sql) THEN FALSE ELSE @],
          info |-> IF sql = "INSERT"
                   THEN [changes |-> 1,
                         lastInsertRowid |-> IF ans.big THEN unsafeSample ELSE smallSample]
                   ELSE NoInfo]

\* db.exec(sql): the script is run as one statement of the given text
exec(db, sql, ans) ==
    IF ~db.open THEN [err |-> TypeError, db |-> db]
    ELSE IF ans.out = "prepareErr" THEN
        [err |-> SqliteError(EngineCode(sql, ans.out)), db |-> db]
    ELSE LET r == run(db, sql, ans) IN [err |-> r.err, db |-> r.db]

\* ------------------------------------------------------------------------
\* Statements and the statement executor
\* ------------------------------------------------------------------------
\* InStatement: a plain string, or {sql, args} with positional arguments (a
\* sequence of values) or named arguments (name/value pairs in property
\* order; a name is its sequence of characters).
StringStmt(sql) == [sql |-> sql, kind |-> "string", args |-> <<>>]
PositionalStmt(sql, args) == [sql |-> sql, kind |-> "positional", args |-> args]
NamedStmt(sql, args) == [sql |-> sql, kind |-> "named", args |-> args]
NamedArg(name, value) == [value |-> value, name |-> name]

\* ResultSetImpl(columns, rows, rowsAffected, lastInsertRowid), from util.js
ResultSetImpl(columns, rows, rowsAffected, lastInsertRowid) ==
    [lastInsertRowid |-> lastInsertRowid, rows |-> rows, columns |-> columns,
     rowsAffected |-> rowsAffected]
NoResultSet == ResultSetImpl(<<>>, <<>>, 0, Undefined)

\* mutant of StripSigil: the name is used as it is
StripSigil_Kept(name) == name

\* name[0] is one of the sigils ? name.substring(1) : name
StripSigil(name) ==
    IF Len(name) > 0 /\ name[1] \in {"@", "$", ":"}
    THEN SubSeq(name, 2, Len(name))
    ELSE name

\* stmt.args.map(valueToSql): the first failing argument throws
RECURSIVE EncodePositional(_, _, _)
EncodePositional(args, i, acc) ==
    IF i > Len(args) THEN [err |-> NoErr, bind |-> [kind |-> "positional", vals |-> acc]]
    ELSE LET r == valueToSql(args[i])
         IN IF r.err # NoErr THEN [err |-> r.err, bind |-> NoBind]
            ELSE EncodePositional(args, i + 1, Append(acc, r.val))

\* for (const name in stmt.args) args[argName] = valueToSql(stmt.args[name])
RECURSIVE EncodeNamed(_, _, _)
EncodeNamed(args, i, acc) ==
    IF i > Len(args) THEN [err |-> NoErr, bind |-> [kind |-> "named", vals |-> acc]]
    ELSE LET r == valueToSql(args[i].value)
             argName == StripSigil(args[i].name)
         IN IF r.err # NoErr THEN [err |-> r.err, bind |-> NoBind]
            ELSE EncodeNamed(args, i + 1,
                    [n \in (DOMAIN acc) \cup {argName} |->
                        IF n = argName THEN r.val ELSE acc[n]])

\* executeStmt, lines 198-215: normalise the statement and encode its arguments
EncodeArgs(stmt) ==
    IF stmt.kind = "string" THEN [err |-> NoErr, bind |-> [kind |-> "positional", vals |-> <<>>]]
    ELSE IF stmt.kind = "positional" THEN EncodePositional(stmt.args, 1, <<>>)
    ELSE EncodeNamed(stmt.args, 1, [n \in {} |-> Null])

\* rowFromSql(sqlRow, columns, intMode): positional values plus lookup by
\* column name, where a duplicated name keeps its first occurrence
rowFromSql(sqlRow, columns, intMode) ==
    LET vals == [i \in 1..Len(sqlRow) |-> valueFromSql(sqlRow[i], intMode)]
        bad == {i \in 1..Len(sqlRow) : vals[i].err # NoErr}
        first(c) == CHOOSE i \in 1..Len(sqlRow) :
                        /\ columns[i] = c
                        /\ \A j \in 1..(i - 1) : columns[j] # c
    IN IF bad # {}
       THEN [err |-> vals[CHOOSE i \in bad : \A j \in bad : i <= j].err,
             row |-> [named |-> <<>>, length |-> 0, values |-> <<>>]]
       ELSE [err |-> NoErr,
             row |-> [named |-> [c \in {columns[i] : i \in 1..Len(sqlRow)} |->
                                    vals[first(c)].val],
                      length |-> Len(sqlRow),
                      values |-> [i \in 1..Len(sqlRow) |-> vals[i].val]]]

\* sqlStmt.all(args).map(rowFromSql): the first failing row throws
RECURSIVE rowsFromSql(_, _, _, _, _)
rowsFromSql(sqlRows, columns, intMode, i, acc) ==
    IF i > Len(sqlRows) THEN [err |-> NoErr, rows |-> acc]
    ELSE LET r == rowFromSql(sqlRows[i], columns, intMode)
         IN IF r.err # NoErr THEN [err |-> r.err, rows |-> <<>>]
            ELSE rowsFromSql(sqlRows, columns, intMode, i + 1, Append(acc, r.row))

\* what a step of the executor leaves behind: the handle, the error thrown
\* (NoErr when it returned), the value returned and the engine calls made
Res(db, err, rs, calls) == [err |-> err, db |-> db, calls |-> calls, rs |-> rs]

\* executeStmt, lines 229-237: the statement returns data
FetchRows(sql, bind, a, dec) ==
    IF a.err # NoErr
    THEN Res(a.db, mapSqliteError(a.err), NoResultSet,
             <<Call("prepare", sql, NoBind, TRUE), Call("all", sql, bind, FALSE)>>)
    ELSE IF dec.err # NoErr
    THEN Res(a.db, mapSqliteError(dec.err), NoResultSet,
             <<Call("prepare", sql, NoBind, TRUE), Call("all", sql, bind, TRUE)>>)
    ELSE Res(a.db, NoErr, ResultSetImpl(engineColumns, dec.rows, 0, Undefined),
             <<Call("prepare", sql, NoBind, TRUE), Call("all", sql, bind, TRUE)>>)

\* mutant of RunInfo: the run branch reports like the rows branch, without
\* the engine's counts
RunInfo_NoCounts(sql, bind, r) ==
    IF r.err # NoErr
    THEN Res(r.db, mapSqliteError(r.err), NoResultSet,
             <<Call("prepare", sql, NoBind, TRUE), Call("run", sql, bind, FALSE)>>)
    ELSE Res(r.db, NoErr, ResultSetImpl(<<>>, <<>>, 0, Undefined),
             <<Call("prepare", sql, NoBind, TRUE), RunCall(sql, bind, r.info)>>)

\* executeStmt, lines 238-243: the statement does not return data
RunInfo(sql, bind, r) ==
    IF r.err # NoErr
    THEN Res(r.db, mapSqliteError(r.err), NoResultSet,
             <<Call("prepare", sql, NoBind, TRUE), Call("run", sql, bind, FALSE)>>)
    ELSE Res(r.db, NoErr,
             ResultSetImpl(<<>>, <<>>, r.info.changes, BigIntV(r.info.lastInsertRowid)),
             <<Call("prepare", sql, NoBind, TRUE), RunCall(sql, bind, r.info)>>)

\* executeStmt, lines 217-247, with the encoded arguments enc
ExecuteEncoded(db, sql, intMode, ans, enc) ==
    IF enc.err # NoErr THEN Res(db, enc.err, NoResultSet, <<>>)
    ELSE IF prepare(db, sql, ans) # NoErr
    THEN Res(db, mapSqliteError(prepare(db, sql, ans)), NoResultSet,
             <<Call("prepare", sql, NoBind, FALSE)>>)
    ELSE IF returnsData(sql)
    THEN FetchRows(sql, enc.bind, all(db, sql, ans),
                   rowsFromSql(all(db, sql, ans).rows, engineColumns, intMode, 1, <<>>))
    ELSE RunInfo(sql, enc.bind, run(db, sql, ans))

\* executeStmt(db, stmt, intMode)
executeStmt(db, stmt, intMode, ans) ==
    ExecuteEncoded(db, stmt.sql, intMode, ans, EncodeArgs(stmt))

\* executeMultiple(db, sql)
executeMultiple(db, sql, ans) ==
    LET r == exec(db, sql, ans)
    IN Res(r.db, mapSqliteError(r.err), NoResultSet, <<Call("exec", sql, NoBind, r.err = NoErr)>>)

\* ------------------------------------------------------------------------
\* What the engine answers during one operation.  Every handler stops at the
\* first error, so at most one call of an operation fails: `open` tells
\* whether the handle can be opened, `failAt` is the position of the failing
\* statement (0: none) and `out` the way it fails.
\* ------------------------------------------------------------------------
Oracle(open, failAt, out, big) == [out |-> out, big |-> big, open |-> open, failAt |-> failAt]

TxOracles(k, bigs, fails) ==
    {Oracle(TRUE, 0, "ok", b) : b \in bigs}
        \cup {Oracle(TRUE, i, f, FALSE) : i \in 1..k, f \in fails}

ClientOracles(k, bigs, fails) ==
    {Oracle(FALSE, 0, "ok", FALSE)} \cup TxOracles(k, bigs, fails)

StmtAnswer(orc, i) == Answer(IF orc.failAt = i THEN orc.out ELSE "ok", orc.big)

\* ------------------------------------------------------------------------
\* State
\* ------------------------------------------------------------------------
VARIABLES
    closed,   \* Sqlite3Client.closed
    intMode,  \* Sqlite3Client.#intMode
    txs,      \* the Sqlite3Transaction objects created so far: #database, #intMode
    hist,     \* per transaction: terminal transitions and handle.close() calls so far
    handles,  \* engine handles currently open
    last      \* the latest operation: its arguments, outcome and engine calls

vars == <<closed, intMode, txs, hist, handles, last>>

Obs(op, tx, mode, stmts, err, calls, results) ==
    [err |-> err, mode |-> mode, calls |-> calls, op |-> op, tx |-> tx,
     stmts |-> stmts, results |-> results]

OpenCall(ok) == Call("open", "", NoBind, ok)
CloseCall == Call("close", "", NoBind, TRUE)

\* what a method body leaves behind: the error thrown (NoErr when it
\* returned), the value returned, the engine calls made and the handle
Out(err, results, calls, db) == [err |-> err, db |-> db, calls |-> calls, results |-> results]
NoDb == [open |-> FALSE, inTransaction |-> FALSE]

\* mutant of ClientCheckNotClosed: the closed flag is never looked at
ClientCheckNotClosed_Never(isClosed) == NoErr

\* Sqlite3Client.#checkNotClosed
ClientCheckNotClosed(isClosed) ==
    IF isClosed THEN LibsqlError("CLIENT_CLOSED", NoCause) ELSE NoErr

\* mutant of TxCheckNotClosed: only the handle's open flag is consulted
TxCheckNotClosed_OpenOnly(db) ==
    IF ~db.open
    THEN LibsqlError("TRANSACTION_CLOSED", NoCause)
    ELSE NoErr

\* Sqlite3Transaction.#checkNotClosed
TxCheckNotClosed(db) ==
    IF ~db.open \/ ~db.inTransaction
    THEN LibsqlError("TRANSACTION_CLOSED", NoCause)
    ELSE NoErr

\* ------------------------------------------------------------------------
\* Sqlite3Client
\* ------------------------------------------------------------------------
\* a statement's outcome as the outcome of the method that returns it
One(r) == Out(r.err, IF r.err = NoErr THEN <<r.rs>> ELSE <<>>, r.calls, r.db)
None(r) == Out(r.err, <<>>, r.calls, r.db)

\* mutant of ClientFinally: db.close() at the end of the try block instead
\* of in a finally block
ClientFinally_OnSuccess(o) ==
    IF o.err = NoErr
    THEN Out(o.err, o.results, <<OpenCall(TRUE)>> \o o.calls \o <<CloseCall>>, DatabaseClose(o.db))
    ELSE Out(o.err, o.results, <<OpenCall(TRUE)>> \o o.calls, o.db)

\* const db = new Database(...); try { ... } finally { db.close(); }
ClientFinally(o) ==
    Out(o.err, o.results, <<OpenCall(TRUE)>> \o o.calls \o <<CloseCall>>, DatabaseClose(o.db))

\* the part of a client method before its try block: #checkNotClosed(), then
\* new Database(...); NoErr when the try block is entered
ClientEnter(isClosed, orc) ==
    IF ClientCheckNotClosed(isClosed) # NoErr
    THEN Out(ClientCheckNotClosed(isClosed), <<>>, <<>>, NoDb)
    ELSE Out(DatabaseNew(orc.open).err, <<>>, <<OpenCall(FALSE)>>, DatabaseNew(orc.open).db)

\* execute(stmt)
Sqlite3Client_execute(isClosed, im, stmt, orc) ==
    IF ClientEnter(isClosed, orc).err # NoErr THEN ClientEnter(isClosed, orc)
    ELSE ClientFinally(One(executeStmt(DatabaseNew(TRUE).db, stmt, im, StmtAnswer(orc, 1))))

\* stmts.map(...) of Sqlite3Client.batch: before each statement the handle
\* must still be in a transaction
RECURSIVE ClientBatchMap(_, _, _, _, _, _, _)
RECURSIVE ClientBatchNext(_, _, _, _, _, _, _)
\* mutant of ClientBatchMap: the transaction flag is not checked again
ClientBatchMap_Unchecked(db, im, stmts, i, orc, results, calls) ==
    IF i > Len(stmts) THEN Out(NoErr, results, calls, db)
    ELSE ClientBatchNext(im, stmts, i, orc, results, calls,
                         executeStmt(db, stmts[i], im, StmtAnswer(orc, i + 1)))

ClientBatchMap(db, im, stmts, i, orc, results, calls) ==
    IF i > Len(stmts) THEN Out(NoErr, results, calls, db)
    ELSE IF ~db.inTransaction
    THEN Out(LibsqlError("TRANSACTION_CLOSED", NoCause), results, calls, db)
    ELSE ClientBatchNext(im, stmts, i, orc, results, calls,
                         executeStmt(db, stmts[i], im, StmtAnswer(orc, i + 1)))
ClientBatchNext(im, stmts, i, orc, results, calls, r) ==
    IF r.err # NoErr THEN Out(r.err, results, calls \o At(r.calls, i), r.db)
    ELSE ClientBatchMap(r.db, im, stmts, i + 1, orc, Append(results, r.rs),
                        calls \o At(r.calls, i))

\* mutant of BatchMapped: COMMIT is issued whether or not a statement threw
BatchMapped_AlwaysCommit(im, stmts, orc, m) ==
    Out(m.err, <<>>,
        m.calls \o At(executeStmt(m.db, StringStmt("COMMIT"), im,
                                  StmtAnswer(orc, Len(stmts) + 2)).calls, Len(stmts) + 1),
        m.db)

\* batch, line 100: the final COMMIT after the mapped statements m
BatchCommit(n, m, c) ==
    Out(c.err, IF c.err = NoErr THEN m.results ELSE <<>>, m.calls \o At(c.calls, n + 1), c.db)
BatchMapped(im, stmts, orc, m) ==
    IF m.err # NoErr THEN Out(m.err, <<>>, m.calls, m.db)
    ELSE BatchCommit(Len(stmts), m, executeStmt(m.db, StringStmt("COMMIT"), im,
                                    StmtAnswer(orc, Len(stmts) + 2)))
\* batch, lines 93-99: BEGIN came back as b, then the statements
BatchBegun(im, stmts, orc, b) ==
    IF b.err # NoErr THEN None(b)
    ELSE BatchMapped(im, stmts, orc, ClientBatchMap(b.db, im, stmts, 1, orc, <<>>, b.calls))

\* batch(stmts, mode)
Sqlite3Client_batch(isClosed, im, stmts, mode, orc) ==
    IF ClientEnter(isClosed, orc).err # NoErr THEN ClientEnter(isClosed, orc)
    ELSE ClientFinally(BatchBegun(im, stmts, orc,
            executeStmt(DatabaseNew(TRUE).db, StringStmt(transactionModeToBegin(mode)),
                        im, StmtAnswer(orc, 1))))

\* mutant of TransactionBegun: the handle is not closed when BEGIN throws
TransactionBegun_Leaked(b) ==
    Out(b.err, <<>>, <<OpenCall(TRUE)>> \o b.calls, b.db)

\* transaction, lines 110-116: the handle is closed only when BEGIN throws,
\* otherwise it is handed to the new Sqlite3Transaction
TransactionBegun(b) ==
    IF b.err # NoErr
    THEN Out(b.err, <<>>, <<OpenCall(TRUE)>> \o b.calls \o <<CloseCall>>, DatabaseClose(b.db))
    ELSE Out(NoErr, <<>>, <<OpenCall(TRUE)>> \o b.calls, b.db)

\* transaction(mode)
Sqlite3Client_transaction(isClosed, im, mode, orc) ==
    IF ClientEnter(isClosed, orc).err # NoErr THEN ClientEnter(isClosed, orc)
    ELSE TransactionBegun(executeStmt(DatabaseNew(TRUE).db,
            StringStmt(transactionModeToBegin(mode)), im, StmtAnswer(orc, 1)))

\* executeMultiple(sql)
Sqlite3Client_executeMultiple(isClosed, sql, orc) ==
    IF ClientEnter(isClosed, orc).err # NoErr THEN ClientEnter(isClosed, orc)
    ELSE ClientFinally(None(executeMultiple(DatabaseNew(TRUE).db, sql, StmtAnswer(orc, 1))))

\* ------------------------------------------------------------------------
\* Sqlite3Transaction
\* ------------------------------------------------------------------------
\* mutant of Sqlite3Transaction_execute: no #checkNotClosed() before the statement
Sqlite3Transaction_execute_Unguarded(db, im, stmt, orc) ==
    One(executeStmt(db, stmt, im, StmtAnswer(orc, 1)))

\* execute(stmt)
Sqlite3Transaction_execute(db, im, stmt, orc) ==
    IF TxCheckNotClosed(db) # NoErr THEN Out(TxCheckNotClosed(db), <<>>, <<>>, db)
    ELSE One(executeStmt(db, stmt, im, StmtAnswer(orc, 1)))

\* batch(stmts): stmts.map((stmt) => { checkNotClosed(); executeStmt(...) })
RECURSIVE TxBatchMap(_, _, _, _, _, _, _)
RECURSIVE TxBatchNext(_, _, _, _, _, _, _)
TxBatchMap(db, im, stmts, i, orc, results, calls) ==
    IF i > Len(stmts) THEN Out(NoErr, results, calls, db)
    ELSE IF TxCheckNotClosed(db) # NoErr THEN Out(TxCheckNotClosed(db), <<>>, calls, db)
    ELSE TxBatchNext(im, stmts, i, orc, results, calls,
                     executeStmt(db, stmts[i], im, StmtAnswer(orc, i)))
TxBatchNext(im, stmts, i, orc, results, calls, r) ==
    IF r.err # NoErr THEN Out(r.err, <<>>, calls \o At(r.calls, i), r.db)
    ELSE TxBatchMap(r.db, im, stmts, i + 1, orc, Append(results, r.rs),
                    calls \o At(r.calls, i))

Sqlite3Transaction_batch(db, im, stmts, orc) ==
    TxBatchMap(db, im, stmts, 1, orc, <<>>, <<>>)

\* executeMultiple(sql)
Sqlite3Transaction_executeMultiple(db, sql, orc) ==
    IF TxCheckNotClosed(db) # NoErr THEN Out(TxCheckNotClosed(db), <<>>, <<>>, db)
    ELSE None(executeMultiple(db, sql, StmtAnswer(orc, 1)))

\* mutant of ThenClose: the handle is not closed after the statement
ThenClose_Forgotten(r) == None(r)

\* rollback and commit, after the statement came back as r: this.#database.close()
ThenClose(r) ==
    IF r.err # NoErr THEN None(r)
    ELSE Out(NoErr, <<>>, r.calls \o <<CloseCall>>, DatabaseClose(r.db))

\* rollback()
Sqlite3Transaction_rollback(db, im, orc) ==
    IF ~db.open THEN Out(NoErr, <<>>, <<>>, db)
    ELSE IF TxCheckNotClosed(db) # NoErr THEN Out(TxCheckNotClosed(db), <<>>, <<>>, db)
    ELSE ThenClose(executeStmt(db, StringStmt("ROLLBACK"), im, StmtAnswer(orc, 1)))

\* mutant of Sqlite3Transaction_commit: the handle is closed without a COMMIT
Sqlite3Transaction_commit_CloseOnly(db, im, orc) ==
    IF TxCheckNotClosed(db) # NoErr THEN Out(TxCheckNotClosed(db), <<>>, <<>>, db)
    ELSE Out(NoErr, <<>>, <<CloseCall>>, DatabaseClose(db))

\* commit()
Sqlite3Transaction_commit(db, im, orc) ==
    IF TxCheckNotClosed(db) # NoErr THEN Out(TxCheckNotClosed(db), <<>>, <<>>, db)
    ELSE ThenClose(executeStmt(db, StringStmt("COMMIT"), im, StmtAnswer(orc, 1)))

\* mutant of Sqlite3Transaction_close: close() consults the guard first
Sqlite3Transaction_close_Guarded(db) ==
    IF TxCheckNotClosed(db) # NoErr THEN Out(TxCheckNotClosed(db), <<>>, <<>>, db)
    ELSE Out(NoErr, <<>>, <<CloseCall>>, DatabaseClose(db))

\* close()
Sqlite3Transaction_close(db) ==
    Out(NoErr, <<>>, <<CloseCall>>, DatabaseClose(db))

\* get closed()
Sqlite3Transaction_closed(db) == ~db.open

\* ------------------------------------------------------------------------
\* Inputs
\* ------------------------------------------------------------------------
RECURSIVE ListsUpTo(_, _)
ListsUpTo(S, n) ==
    IF n = 0 THEN {<<>>}
    ELSE LET shorter == ListsUpTo(S, n - 1)
         IN shorter \cup {Append(l, x) : l \in {m \in shorter : Len(m) = n - 1}, x \in S}

Strings(sqls) == {StringStmt(sql) : sql \in sqls}
SoftFails == {"runErr", "runErrRollback"}
BadStmt == PositionalStmt("INSERT", <<Undefined>>)

\* ------------------------------------------------------------------------
\* Actions: one per public method
\* ------------------------------------------------------------------------
Leak(db) == IF db.open THEN 1 ELSE 0

\* the effect of a client method that keeps no handle
ClientStep(op, mode, stmts, b) ==
    /\ last' = Obs(op, 0, mode, stmts, b.err, b.calls, b.results)
    /\ handles' = handles + Leak(b.db)
    /\ UNCHANGED <<closed, intMode, txs, hist>>

ClientExecute(S, bigs, fails) ==
    \E stmt \in S, orc \in ClientOracles(1, bigs, fails) :
        ClientStep("execute", "", <<stmt>>,
                   Sqlite3Client_execute(closed, intMode, stmt, orc))

ClientBatch(L, modes, fails) ==
    \E stmts \in L, mode \in modes :
      \E orc \in ClientOracles(Len(stmts) + 2, {FALSE}, fails) :
        ClientStep("batch", mode, stmts,
                   Sqlite3Client_batch(closed, intMode, stmts, mode, orc))

NewHist == [terminal |-> "none", terminations |-> 0, closeCalls |-> 0, failedBatch |-> FALSE]

\* the effect of transaction(mode): a new Sqlite3Transaction(db, intMode)
\* when it returned
TransactionStep(mode, b) ==
    /\ b.err = NoErr => Len(txs) < MaxTx
    /\ last' = Obs("transaction", 0, mode, <<>>, b.err, b.calls, b.results)
    /\ handles' = handles + Leak(b.db)
    /\ txs' = IF b.err = NoErr
              THEN Append(txs, [intMode |-> intMode, database |-> b.db])
              ELSE txs
    /\ hist' = IF b.err = NoErr THEN Append(hist, NewHist) ELSE hist
    /\ UNCHANGED <<closed, intMode>>

ClientTransaction(modes, fails) ==
    \E mode \in modes, orc \in ClientOracles(1, {FALSE}, fails) :
        TransactionStep(mode, Sqlite3Client_transaction(closed, intMode, mode, orc))

ClientExecuteMultiple(sqls, fails) ==
    \E sql \in sqls, orc \in ClientOracles(1, {FALSE}, fails) :
        ClientStep("executeMultiple", "", <<StringStmt(sql)>>,
                   Sqlite3Client_executeMultiple(closed, sql, orc))

\* mutant of ClientClose: closing the client releases the transactions' handles
ClientClose_ReleasesTransactions ==
    /\ closed' = TRUE
    /\ last' = Obs("close", 0, "", <<>>, NoErr, <<>>, <<>>)
    /\ txs' = [t \in 1..Len(txs) |-> [txs[t] EXCEPT !.database = DatabaseClose(@)]]
    /\ handles' = 0
    /\ UNCHANGED <<intMode, hist>>

\* Sqlite3Client.close()
ClientClose ==
    /\ closed' = TRUE
    /\ last' = Obs("close", 0, "", <<>>, NoErr, <<>>, <<>>)
    /\ UNCHANGED <<intMode, txs, hist, handles>>

CloseCallsIn(calls) == Cardinality({i \in 1..Len(calls) : calls[i].call = "close"})

\* the effect of one Sqlite3Transaction method on the transaction t
TxStep(t, op, stmts, b) ==
    LET db == txs[t].database
        terminated ==
            \/ op = "commit" /\ b.err = NoErr
            \/ op = "rollback" /\ b.err = NoErr /\ b.calls # <<>>
            \/ op = "close" /\ db.open
        label == IF op = "commit" THEN "committed"
                 ELSE IF op = "rollback" THEN "rolledback" ELSE "closed"
        failed == /\ op = "batch" /\ Len(stmts) = 2 /\ Len(b.calls) = 4
                  /\ b.err.class = "LibsqlError" /\ b.err.code = "SQLITE_CONSTRAINT"
    IN
    /\ last' = Obs(op, t, "", stmts, b.err, b.calls, b.results)
    /\ txs' = [txs EXCEPT ![t].database = b.db]
    /\ hist' = [hist EXCEPT
                  ![t].terminal = IF terminated THEN label ELSE @,
                  ![t].terminations = IF terminated THEN @ + 1 ELSE @,
                  ![t].closeCalls = @ + CloseCallsIn(b.calls),
                  ![t].failedBatch = @ \/ failed]
    /\ handles' = handles - (IF db.open /\ ~b.db.open THEN 1 ELSE 0)
    /\ UNCHANGED <<closed, intMode>>

TxExecute(t, S, bigs, fails) ==
    \E stmt \in S, orc \in TxOracles(1, bigs, fails) :
        TxStep(t, "execute", <<stmt>>,
               Sqlite3Transaction_execute(txs[t].database, txs[t].intMode, stmt, orc))

TxBatch(t, L, fails) ==
    \E stmts \in L :
      \E orc \in TxOracles(Len(stmts), {FALSE}, fails) :
        TxStep(t, "batch", stmts,
               Sqlite3Transaction_batch(txs[t].database, txs[t].intMode, stmts, orc))

TxExecuteMultiple(t, sqls, fails) ==
    \E sql \in sqls, orc \in TxOracles(1, {FALSE}, fails) :
        TxStep(t, "executeMultiple", <<StringStmt(sql)>>,
               Sqlite3Transaction_executeMultiple(txs[t].database, sql, orc))

TxRollback(t, fails) ==
    \E orc \in TxOracles(1, {FALSE}, fails) :
        TxStep(t, "rollback", <<>>,
               Sqlite3Transaction_rollback(txs[t].database, txs[t].intMode, orc))

TxCommit(t, fails) ==
    \E orc \in TxOracles(1, {FALSE}, fails) :
        TxStep(t, "commit", <<>>,
               Sqlite3Transaction_commit(txs[t].database, txs[t].intMode, orc))

TxClose(t) ==
    /\ hist[t].closeCalls < MaxCloseCalls
    /\ TxStep(t, "close", <<>>, Sqlite3Transaction_close(txs[t].database))

\* ------------------------------------------------------------------------
\* Spec: the lifecycle of one client and its transactions
\* ------------------------------------------------------------------------
Fresh(modes) ==
    /\ closed = FALSE
    /\ intMode \in modes
    /\ txs = <<>>
    /\ hist = <<>>
    /\ handles = 0
    /\ last = Obs("new", 0, "", <<>>, NoErr, <<>>, <<>>)

Init == Fresh({"number"})

Next ==
    \/ ClientExecute(Strings({"SELECT", "INSERT"}) \cup {BadStmt}, BOOLEAN, FailOuts)
    \/ ClientBatch(ListsUpTo(Strings({"INSERT"}), MaxBatch), {"deferred"}, {"runErr"})
    \/ ClientTransaction(Modes, SoftFails)
    \/ ClientExecuteMultiple({"INSERT"}, SoftFails)
    \/ ClientClose
    \/ \E t \in 1..Len(txs) : TxExecute(t, Strings({"INSERT", "COMMIT"}), {FALSE}, SoftFails)
    \/ \E t \in 1..Len(txs) : TxBatch(t, ListsUpTo(Strings({"INSERT"}), MaxBatch), SoftFails)
    \/ \E t \in 1..Len(txs) : TxExecuteMultiple(t, {"INSERT"}, SoftFails)
    \/ \E t \in 1..Len(txs) : TxRollback(t, SoftFails)
    \/ \E t \in 1..Len(txs) : TxCommit(t, SoftFails)
    \/ \E t \in 1..Len(txs) : TxClose(t)

Spec == Init /\ [][Next]_vars

\* ------------------------------------------------------------------------
\* Properties of the lifecycle (Spec)
\* ------------------------------------------------------------------------
ClientCalls == {"execute", "batch", "transaction", "executeMultiple"}
GuardedTxCalls == {"execute", "batch", "executeMultiple", "commit"}
ClientClosedError == LibsqlError("CLIENT_CLOSED", NoCause)
TransactionClosedError == LibsqlError("TRANSACTION_CLOSED", NoCause)

\* C1: once the client is closed, execute, batch, transaction and
\* executeMultiple reject with CLIENT_CLOSED and make no engine call at all
\* (no handle is opened, nothing is prepared, run, exec'ed or closed).
C1_ClosedClientRejects ==
    (closed /\ last.tx = 0 /\ last.op \in ClientCalls)
        => (last.err = ClientClosedError /\ last.calls = <<>>)

C1_Witness ==
    closed /\ last.tx = 0 /\ last.op = "batch" /\ last.err = ClientClosedError

\* C2: after commit() or rollback() of a transaction has completed, every
\* execute on it rejects with TRANSACTION_CLOSED, and a further rollback()
\* resolves without error, makes no engine call and changes nothing.
C2_AfterCommitOrRollback ==
    [][\A t \in 1..Len(txs) :
         hist[t].terminal \in {"committed", "rolledback"} =>
            /\ (last'.tx = t /\ last'.op = "execute")
                  => (last'.err = TransactionClosedError /\ last'.calls = <<>>)
            /\ (last'.tx = t /\ last'.op = "rollback")
                  => (last'.err = NoErr /\ last'.calls = <<>> /\ txs' = txs)]_vars

C2_Witness ==
    \E t \in 1..Len(txs) :
        /\ hist[t].terminal = "committed"
        /\ last.tx = t /\ last.op = "execute"
        /\ last.err = TransactionClosedError

\* C3 as stated: a transaction becomes terminal at most once and
\* handle.close() is called exactly once, on that transition, never again.
C3_CloseCalledExactlyOnce ==
    \A t \in 1..Len(txs) :
        /\ hist[t].terminations <= 1
        /\ hist[t].closeCalls = hist[t].terminations

\* C3 amended: a transaction becomes terminal at most once; its handle is
\* open exactly until that transition and released from then on;
\* handle.close() has been called at least once when it is terminal and
\* never before.  (A later close() calls handle.close() again on the
\* released handle.)
C3_ReleasedOnce ==
    \A t \in 1..Len(txs) :
        /\ hist[t].terminations <= 1
        /\ (hist[t].terminations = 1) <=> ~txs[t].database.open
        /\ (hist[t].terminations = 1) <=> (hist[t].terminal # "none")
        /\ (hist[t].terminations = 0) <=> (hist[t].closeCalls = 0)

C3_Witness ==
    \E t \in 1..Len(txs) :
        /\ hist[t].terminal = "committed"
        /\ hist[t].closeCalls = 2
        /\ last.tx = t /\ last.op = "close"

\* C4 as stated: whenever the guard of a transaction fails at the time of
\* the call, execute, batch, executeMultiple and commit fail with
\* TRANSACTION_CLOSED and make no engine call, whatever their argument.
C4_GuardRejectsEveryCall ==
    [][\A t \in 1..Len(txs) :
         (/\ TxCheckNotClosed(txs[t].database) # NoErr
          /\ last'.tx = t /\ last'.op \in GuardedTxCalls)
            => (last'.err = TransactionClosedError /\ last'.calls = <<>>)]_vars

\* C5: a client call of execute, batch or executeMultiple that opens a
\* handle closes it before it returns or throws, and closes nothing else;
\* the handles open in the engine are exactly those of the transactions
\* that have not been committed, rolled back or closed.
OpenTxs == {t \in 1..Len(txs) : txs[t].database.open}
Scoped(calls) ==
    \/ calls = <<>>
    \/ calls = <<OpenCall(FALSE)>>
    \/ /\ Len(calls) >= 2
       /\ calls[1] = OpenCall(TRUE)
       /\ calls[Len(calls)] = CloseCall
       /\ \A k \in 2..(Len(calls) - 1) : calls[k].call \notin {"open", "close"}
C5_HandlesReleased ==
    /\ handles = Cardinality(OpenTxs)
    /\ \A t \in OpenTxs : hist[t].terminal = "none"
    /\ (last.tx = 0 /\ last.op \in {"execute", "batch", "executeMultiple"})
          => Scoped(last.calls)

C5_Witness ==
    /\ last.tx = 0 /\ last.op = "execute" /\ last.err = TypeError
    /\ Len(last.calls) = 2
    /\ handles = 1

\* C7 as stated: after a batch of two statements on a transaction whose
\* second statement failed with a constraint violation, no execute, batch,
\* executeMultiple or commit on that transaction succeeds.
C7_NothingSucceedsAfterFailedBatch ==
    \A t \in 1..Len(txs) :
        (hist[t].failedBatch /\ last.tx = t /\ last.op \in GuardedTxCalls)
            => last.err # NoErr

\* C8 as stated: no native engine error reaches the caller; an engine
\* failure surfaces as a LibsqlError with the engine's code and the
\* original error as cause.
C8_NoNativeErrorEscapes ==
    /\ last.err.class # "SqliteError"
    /\ last.err.class = "LibsqlError" =>
          \/ last.err \in {ClientClosedError, TransactionClosedError}
          \/ last.err.cause = [class |-> "SqliteError", code |-> last.err.code]

\* ------------------------------------------------------------------------
\* SpecBatch: Sqlite3Client.batch on statements that may themselves end the
\* transaction, under every mode and every way a call can fail
\* ------------------------------------------------------------------------
InitBatch == Fresh({"number"})

NextBatch ==
    \/ ClientBatch(ListsUpTo(Strings({"INSERT", "COMMIT"}), MaxBatch), Modes, FailOuts)
    \/ ClientClose

SpecBatch == InitBatch /\ [][NextBatch]_vars

\* what the trace of a batch shows
BeginOk(c) ==
    \E k \in 1..Len(c) : c[k].at = 0 /\ c[k].call = "run" /\ c[k].ok /\ IsBegin(c[k].sql)
StmtOk(c, i) ==
    \E k \in 1..Len(c) : c[k].at = i /\ c[k].call \in {"run", "all"} /\ c[k].ok
StmtFailed(c, i) ==
    \E k \in 1..Len(c) : c[k].at = i /\ ~c[k].ok
CommitIssued(c, n) ==
    \E k \in 1..Len(c) : c[k].at = n + 1 /\ c[k].sql = "COMMIT"
Ran(c, k, sql) == c[k].call = "run" /\ c[k].ok /\ c[k].sql = sql
\* an INSERT of the batch was made durable: a COMMIT ran after it on the
\* same handle with no ROLLBACK in between
WorkCommitted(c) ==
    \E i, j \in 1..Len(c) :
        /\ i < j
        /\ Ran(c, i, "INSERT")
        /\ Ran(c, j, "COMMIT")
        /\ \A k \in (i + 1)..(j - 1) : ~Ran(c, k, "ROLLBACK")
BatchRan == last.tx = 0 /\ last.op = "batch" /\ last.calls # <<>> /\ last.calls[1].ok

\* the part of C6 that does not depend on what the statements are
BatchCommitsIffAllOk ==
    LET c == last.calls
        n == Len(last.stmts)
    IN /\ CommitIssued(c, n) <=> (BeginOk(c) /\ \A i \in 1..n : StmtOk(c, i))
       /\ \A i \in 1..n :
            StmtFailed(c, i) =>
                /\ \A k \in 1..Len(c) : c[k].at <= i
                /\ last.err # NoErr
       /\ c[Len(c)] = CloseCall
       /\ (last.err = NoErr) <=> (\E k \in 1..Len(c) : c[k].at = n + 1 /\ Ran(c, k, "COMMIT"))

RECURSIVE SuccFrom(_, _)
SuccFrom(mag, i) ==
    IF i = 0 THEN <<1>> \o mag
    ELSE IF mag[i] < 9 THEN [mag EXCEPT ![i] = @ + 1]
    ELSE SuccFrom([mag EXCEPT ![i] = 0], i - 1)
MagSucc(mag) == SuccFrom(mag, Len(mag))

RECURSIVE PredFrom(_, _)
PredFrom(mag, i) ==
    IF mag[i] > 0 THEN [mag EXCEPT ![i] = @ - 1]
    ELSE PredFrom([mag EXCEPT ![i] = 9], i - 1)
\* mag - 1, for mag >= 1
MagPred(mag) ==
    LET p == PredFrom(mag, Len(mag))
    IN IF Len(p) > 1 /\ p[1] = 0 THEN Tail(p) ELSE p

RECURSIVE NatDigits(_)
NatDigits(n) == IF n < 10 THEN <<n>> ELSE NatDigits(n \div 10) \o <<n % 10>>
FromInt(n) == IF n < 0 THEN Big(TRUE, NatDigits(0 - n)) ELSE Big(FALSE, NatDigits(n))

\* 2^53 and 2^63
TwoPow53 == <<9,0,0,7,1,9,9,2,5,4,7,4,0,9,9,2>>
TwoPow63 == <<9,2,2,3,3,7,2,0,3,6,8,5,4,7,7,5,8,0,8>>

\* -2^63 <= b <= 2^63 - 1
In64(b) == IF b.neg THEN ~MagLess(TwoPow63, b.mag) ELSE MagLess(b.mag, TwoPow63)
\* |b| <= 2^53 - 1
InSafe(b) == MagLess(b.mag, TwoPow53)

\* ------------------------------------------------------------------------
\* SpecArgs: execute with positional arguments of every kind the encoder
\* distinguishes, on the client with up to MaxArgs of them and on a
\* transaction with one
\* ------------------------------------------------------------------------
epochSample == Big(FALSE, <<1,7,0,0,0,0,0,0,0,0,0,0,0>>)
ArgValues ==
    {BoolV(TRUE), BoolV(FALSE), DateV("finite", epochSample), Undefined,
     NumberV("nan", FromInt(0)), BigIntV(Big(FALSE, TwoPow63))}
ArgStmts == {PositionalStmt("INSERT", a) : a \in ListsUpTo(ArgValues, MaxArgs)}

\* single arguments at the two ends of the signed 64-bit range
EdgeArgValues ==
    ArgValues \cup
        {NumberV("inf", FromInt(0)),
         BigIntV(Big(FALSE, MagPred(TwoPow63))),
         BigIntV(Big(TRUE, TwoPow63)),
         BigIntV(Big(TRUE, MagSucc(TwoPow63)))}
EdgeArgStmts == {PositionalStmt("INSERT", <<v>>) : v \in EdgeArgValues}

InitArgs == Fresh({"number"})

NextArgs ==
    \/ ClientExecute(ArgStmts, {FALSE}, {})
    \/ ClientTransaction({"write"}, {})
    \/ \E t \in 1..Len(txs) : TxExecute(t, EdgeArgStmts, {FALSE}, {"runErr"})

SpecArgs == InitArgs /\ [][NextArgs]_vars

\* an argument the encoder must reject, and the error it is rejected with
BadArg(v) ==
    \/ v = Undefined
    \/ v.t = "number" /\ v.num # "finite"
    \/ v.t = "bigint" /\ ~In64(BigOf(v))
BadArgError(v) == IF v = Undefined THEN TypeError ELSE RangeError
FirstBad(args) == CHOOSE i \in 1..Len(args) : BadArg(args[i]) /\ \A j \in 1..(i - 1) : ~BadArg(args[j])

\* the execute got past its guard and, on the client, opened its handle
Entered ==
    /\ last.op = "execute"
    /\ last.err \notin {ClientClosedError, TransactionClosedError}
    /\ last.tx = 0 => (last.calls # <<>> /\ last.calls[1].ok)

\* C9: when an argument of the statement is undefined, a non-finite number
\* or an integer outside the signed 64-bit range, execute throws the
\* encoder's own TypeError or RangeError, not wrapped, and makes no prepare,
\* row-fetch or run call; in every row-fetch or run call that is made, true
\* is bound as the integer 1, false as 0 and a timestamp as the number of
\* its millisecond epoch.
C9_EncodeBeforeEngine ==
    Entered =>
        LET args == last.stmts[1].args
            c == last.calls
        IN /\ (\E i \in 1..Len(args) : BadArg(args[i])) =>
                 /\ last.err = BadArgError(args[FirstBad(args)])
                 /\ \A k \in 1..Len(c) : c[k].call \notin {"prepare", "all", "run"}
           /\ \A k \in 1..Len(c) :
                 c[k].call \in {"all", "run"} =>
                    /\ c[k - 1].call = "prepare"
                    /\ Len(c[k].bind.vals) = Len(args)
                    /\ \A i \in 1..Len(args) :
                         /\ args[i] = BoolV(TRUE) => c[k].bind.vals[i] = BigIntV(FromInt(1))
                         /\ args[i] = BoolV(FALSE) => c[k].bind.vals[i] = BigIntV(FromInt(0))
                         /\ (args[i].t = "date" /\ args[i].num = "finite") =>
                               c[k].bind.vals[i] = NumberV("finite", BigOf(args[i]))

C9_Witness ==
    /\ Entered
    /\ last.tx = 0
    /\ Len(last.stmts[1].args) = 2
    /\ last.stmts[1].args[1] = BoolV(TRUE)
    /\ last.stmts[1].args[2] = Undefined
    /\ last.err = TypeError
    /\ last.calls = <<OpenCall(TRUE), CloseCall>>

\* ------------------------------------------------------------------------
\* SpecCodec: the value codec on signed 64-bit integers.  valueFromSql is
\* applied to an integer the engine returned, under every IntMode, and
\* valueToSql to the value that came out of it.
\* ------------------------------------------------------------------------
SmallIntegers == {FromInt(n) : n \in (0 - MaxSmall)..MaxSmall}
EdgeIntegers ==
    {Big(neg, mag) : neg \in BOOLEAN,
                     mag \in {MagPred(MagPred(TwoPow53)), MagPred(TwoPow53), TwoPow53,
                              MagSucc(TwoPow53), MagPred(TwoPow63)}}
        \cup {Big(TRUE, TwoPow63)}
Integers64 == SmallIntegers \cup EdgeIntegers

InitCodec == Fresh({"number"})

\* the effect of one codec call: r is what it returned or threw
CodecStep(op, mode, input, r) ==
    /\ last' = Obs(op, 0, mode, <<input>>, r.err, <<>>, IF r.err = NoErr THEN <<r.val>> ELSE <<>>)
    /\ UNCHANGED <<closed, intMode, txs, hist, handles>>

\* valueFromSql(v, mode) for an integer v of the engine
DecodeValue ==
    \E v \in Integers64, mode \in IntModes :
        CodecStep("valueFromSql", mode, BigIntV(v), valueFromSql(BigIntV(v), mode))

\* valueToSql of the value the latest valueFromSql returned
EncodeValue ==
    /\ last.op = "valueFromSql"
    /\ last.err = NoErr
    /\ CodecStep("valueToSql", last.mode, last.stmts[1], valueToSql(last.results[1]))

NextCodec == DecodeValue \/ EncodeValue

SpecCodec == InitCodec /\ [][NextCodec]_vars

\* the integer a base-10 text denotes: an optional "-" and digits
CharDigit(c) == CHOOSE d \in Digits : <<"0","1","2","3","4","5","6","7","8","9">>[d + 1] = c
ParseDecimal(s) ==
    IF s[1] = "-"
    THEN Big(TRUE, [i \in 1..(Len(s) - 1) |-> CharDigit(s[i + 1])])
    ELSE Big(FALSE, [i \in 1..Len(s) |-> CharDigit(s[i])])

Decoded == last.op = "valueFromSql" /\ In64(BigOf(last.stmts[1]))
Reencoded == last.op = "valueToSql" /\ In64(BigOf(last.stmts[1]))

\* decoding under "number" succeeds exactly on |v| <= 2^53 - 1, giving the
\* number v, and throws a RangeError otherwise; under "bigint" and "string"
\* it always succeeds
DecodeSucceedsIffSafe ==
    Decoded =>
        IF last.mode = "number"
        THEN IF InSafe(BigOf(last.stmts[1]))
             THEN /\ last.err = NoErr
                  /\ last.results = <<NumberV("finite", BigOf(last.stmts[1]))>>
             ELSE last.err = RangeError
        ELSE last.err = NoErr

\* C10 as stated: for every IntMode and signed 64-bit integer v, decoding
\* under "number" succeeds iff |v| <= 2^53 - 1 and throws a RangeError
\* otherwise; under "bigint" and "string" decoding always succeeds and
\* encoding the decoded value yields the integer v again.
C10_RoundTripsToSameInteger ==
    /\ DecodeSucceedsIffSafe
    /\ (Reencoded /\ last.mode \in {"bigint", "string"}) =>
          /\ last.err = NoErr
          /\ Len(last.results) = 1
          /\ last.results[1].t = "bigint"
          /\ BigOf(last.results[1]) = BigOf(last.stmts[1])

\* C10 amended: as stated for decoding; encoding the value decoded under
\* "bigint" yields the integer v again, and encoding the value decoded
\* under "string" yields, unchanged, the text of the base-10 digits of v:
\* a text that denotes v, not an integer.
C10_RoundTripsToIntegerOrItsDigits ==
    /\ DecodeSucceedsIffSafe
    /\ (Reencoded /\ last.mode = "bigint") =>
          /\ last.err = NoErr
          /\ Len(last.results) = 1
          /\ last.results[1].t = "bigint"
          /\ BigOf(last.results[1]) = BigOf(last.stmts[1])
    /\ (Reencoded /\ last.mode = "string") =>
          /\ last.err = NoErr
          /\ Len(last.results) = 1
          /\ last.results[1].t = "string"
          /\ ParseDecimal(last.results[1].s) = BigOf(last.stmts[1])

C10_Witness ==
    /\ Reencoded
    /\ last.mode = "string"
    /\ last.stmts[1] = BigIntV(minInteger)
    /\ last.err = NoErr
    /\ last.results[1].t = "string"
    /\ Len(last.results[1].s) = 20

\* ------------------------------------------------------------------------
\* Properties of the ResultSet of execute (Spec)
\* ------------------------------------------------------------------------
Fetched(c) == \E k \in 1..Len(c) : c[k].call = "all" /\ c[k].ok
RunReported(c) == {c[k].ret : k \in {j \in 1..Len(c) : c[j].call = "run" /\ c[j].ok}}

\* C11: the ResultSet that execute returns for a statement whose rows were
\* fetched has rowsAffected = 0 and no lastInsertRowid; for a statement
\* that was run it has no columns and no rows, and its rowsAffected and
\* lastInsertRowid are the ones the engine's run call reported.
C11_ResultSetShape ==
    (last.op = "execute" /\ last.err = NoErr) =>
        /\ Len(last.results) = 1
        /\ Fetched(last.calls) # (RunReported(last.calls) # {})
        /\ Fetched(last.calls) =>
              /\ last.results[1].rowsAffected = 0
              /\ last.results[1].lastInsertRowid.t = "undefined"
              /\ last.results[1].columns = engineColumns
        /\ \A info \in RunReported(last.calls) :
              /\ last.results[1].columns = <<>>
              /\ last.results[1].rows = <<>>
              /\ last.results[1].rowsAffected = info.changes
              /\ last.results[1].lastInsertRowid.t = "bigint"
              /\ BigOf(last.results[1].lastInsertRowid) = info.lastInsertRowid

C11_Witness ==
    /\ last.op = "execute" /\ last.err = NoErr
    /\ last.stmts[1].sql = "INSERT"
    /\ last.results[1].rowsAffected = 1
    /\ last.results[1].lastInsertRowid.t = "bigint"
    /\ BigOf(last.results[1].lastInsertRowid) = unsafeSample

\* ------------------------------------------------------------------------
\* SpecNamed: execute with named arguments whose names differ in their
\* leading characters
\* ------------------------------------------------------------------------
ArgNames ==
    {<<"@", "i", "d">>, <<"$", "i", "d">>, <<":", "i", "d">>, <<"i", "d">>,
     <<"#", "i", "d">>, <<"@", "@", "i", "d">>}
NamedArgs == {NamedArg(n, NumberV("finite", FromInt(5))) : n \in ArgNames}
NamedStmts == {NamedStmt("INSERT", a) : a \in ListsUpTo(NamedArgs, MaxNamed)}

InitNamed == Fresh({"number"})

NextNamed ==
    \/ ClientExecute(NamedStmts, {FALSE}, {})
    \/ ClientClose

SpecNamed == InitNamed /\ [][NextNamed]_vars

Sigils == {"@", "$", ":"}
\* a name without its one leading sigil, if it has one
Unsigil(name) == IF name # <<>> /\ Head(name) \in Sigils THEN Tail(name) ELSE name
\* two argument records that differ at most in one leading sigil per name
SameUpToSigil(a, b) ==
    /\ Len(a) = Len(b)
    /\ \A i \in 1..Len(a) :
          /\ Unsigil(a[i].name) = Unsigil(b[i].name)
          /\ a[i].value = b[i].value
\* the argument map an execute bound in its run call
Bound(o) == {o.calls[k].bind : k \in {j \in 1..Len(o.calls) : o.calls[j].call = "run"}}
RanNamed(o) == o.op = "execute" /\ o.err = NoErr /\ Bound(o) # {}

\* C12: two executes whose named arguments differ at most in one leading
\* sigil (@, $ or :) per name bind the same argument map, and the map is
\* keyed by the names without that sigil: {"@id": 5} and {"id": 5} both
\* bind 5 to parameter id.
C12_SigilStripped ==
    [][(RanNamed(last) /\ RanNamed(last'))
          => /\ SameUpToSigil(last.stmts[1].args, last'.stmts[1].args)
                  => Bound(last) = Bound(last')
             /\ \A b \in Bound(last') :
                  /\ b.kind = "named"
                  /\ DOMAIN b.vals =
                        {Unsigil(last'.stmts[1].args[i].name) :
                            i \in 1..Len(last'.stmts[1].args)}]_vars

C12_Witness ==
    /\ RanNamed(last)
    /\ Len(last.stmts[1].args) = 1
    /\ last.stmts[1].args[1].name = <<"@", "i", "d">>
    /\ \A b \in Bound(last) :
          /\ DOMAIN b.vals = {<<"i", "d">>}
          /\ b.vals[<<"i", "d">>] = NumberV("finite", FromInt(5))

\* ------------------------------------------------------------------------
\* Properties of commit, rollback and close of a transaction (Spec)
\* ------------------------------------------------------------------------
\* the SQL statements a call handed to the engine's run or exec
SqlRun(c, sql) == Cardinality({k \in 1..Len(c) : c[k].call \in {"run", "exec"} /\ c[k].sql = sql})
SqlCalls(c) == {k \in 1..Len(c) : c[k].call \in {"prepare", "run", "all", "exec"}}
EngineRejected(c) == \E k \in SqlCalls(c) : ~c[k].ok
Released(t) == Sqlite3Transaction_closed(txs[t].database)

\* a commit() on the transaction t that passes the guard
CommitPassesGuard(t) ==
    /\ TxCheckNotClosed(txs[t].database) = NoErr
    /\ last'.tx = t /\ last'.op = "commit"

\* C13 as stated: a commit() that passes the guard issues exactly one
\* COMMIT, then releases the handle: the transaction is committed and
\* closed reports true.
C13_CommitReleases ==
    [][\A t \in 1..Len(txs) :
         CommitPassesGuard(t) =>
            /\ SqlRun(last'.calls, "COMMIT") = 1
            /\ last'.calls[Len(last'.calls)] = CloseCall
            /\ Sqlite3Transaction_closed(txs'[t].database)
            /\ hist'[t].terminal = "committed"]_vars

\* C13 amended: a commit() that passes the guard issues exactly one COMMIT
\* and nothing else; when the COMMIT succeeds it then releases the handle
\* (committed, closed reports true); when the COMMIT fails, commit() rejects
\* with the mapped engine error and leaves the handle open.
C13_CommitReleasesOnSuccess ==
    [][\A t \in 1..Len(txs) :
         CommitPassesGuard(t) =>
            /\ SqlRun(last'.calls, "COMMIT") = 1
            /\ \A k \in SqlCalls(last'.calls) : last'.calls[k].sql = "COMMIT"
            /\ last'.err = NoErr =>
                  /\ last'.calls[Len(last'.calls)] = CloseCall
                  /\ CloseCallsIn(last'.calls) = 1
                  /\ Sqlite3Transaction_closed(txs'[t].database)
                  /\ hist'[t].terminal = "committed"
            /\ last'.err # NoErr =>
                  /\ last'.err.class = "LibsqlError"
                  /\ CloseCallsIn(last'.calls) = 0
                  /\ ~Sqlite3Transaction_closed(txs'[t].database)
                  /\ hist'[t].terminal = "none"]_vars

C13_Witness ==
    \E t \in 1..Len(txs) :
        /\ last.tx = t /\ last.op = "commit" /\ last.err = NoErr
        /\ SqlRun(last.calls, "COMMIT") = 1
        /\ Released(t)
        /\ hist[t].terminal = "committed"

\* a rollback() on the transaction t
RollbackCalled(t) == last'.tx = t /\ last'.op = "rollback"

\* C14: rollback() is idempotent: on a released handle it does nothing and
\* resolves; on a handle that is still open, whatever the engine's
\* transaction flag, it issues ROLLBACK and, the engine accepting it, then
\* releases the handle: the transaction is rolled back and closed reports
\* true.
C14_RollbackIdempotent ==
    [][\A t \in 1..Len(txs) :
         RollbackCalled(t) =>
            IF Released(t)
            THEN /\ last'.err = NoErr
                 /\ last'.calls = <<>>
                 /\ txs'[t] = txs[t]
            ELSE /\ SqlRun(last'.calls, "ROLLBACK") = 1
                 /\ ~EngineRejected(last'.calls) =>
                       /\ last'.err = NoErr
                       /\ last'.calls[Len(last'.calls)] = CloseCall
                       /\ Sqlite3Transaction_closed(txs'[t].database)
                       /\ hist'[t].terminal = "rolledback"]_vars

\* a close() on the transaction t
CloseCalled(t) == last'.tx = t /\ last'.op = "close"
\* the guard rejected the call before any engine call
GuardRejected(o) == o.err = TransactionClosedError /\ o.calls = <<>>

\* C15: close() releases the handle with no SQL statement handed to the
\* engine, succeeds from every state of the transaction without consulting
\* the guard, and leaves closed reporting true; from then on (the handle
\* being released) every execute, executeMultiple and commit is rejected by
\* the guard with TRANSACTION_CLOSED before any engine call.
C15_CloseForceReleases ==
    [][\A t \in 1..Len(txs) :
         /\ CloseCalled(t) =>
               /\ last'.err = NoErr
               /\ last'.calls = <<CloseCall>>
               /\ SqlCalls(last'.calls) = {}
               /\ Sqlite3Transaction_closed(txs'[t].database)
         /\ (Released(t) /\ last'.tx = t
               /\ last'.op \in {"execute", "executeMultiple", "commit"}) =>
               /\ GuardRejected(last')
               /\ Sqlite3Transaction_closed(txs'[t].database)]_vars

C15_Witness ==
    \E t \in 1..Len(txs) :
        /\ hist[t].terminal = "closed"
        /\ last.tx = t /\ last.op \in {"execute", "executeMultiple", "commit"}
        /\ GuardRejected(last)
        /\ Released(t)

\* ------------------------------------------------------------------------
\* SpecOneWay: one transaction driven by every method, with statements that
\* end the engine's transaction and statements that try to begin a new one
\* ------------------------------------------------------------------------
EndOrBegin == Strings({"COMMIT", transactionModeToBegin("write")})

InitOneWay == Fresh({"number"})

NextOneWay ==
    \/ ClientTransaction({"write"}, {})
    \/ \E t \in 1..Len(txs) : TxExecute(t, EndOrBegin, {FALSE}, SoftFails)
    \/ \E t \in 1..Len(txs) : TxBatch(t, ListsUpTo(EndOrBegin, MaxBatch), {})
    \/ \E t \in 1..Len(txs) :
          TxExecuteMultiple(t, {"INSERT", transactionModeToBegin("write")}, {})
    \/ \E t \in 1..Len(txs) : TxRollback(t, {"runErr"})
    \/ \E t \in 1..Len(txs) : TxCommit(t, {"runErr"})
    \/ \E t \in 1..Len(txs) : TxClose(t)

SpecOneWay == InitOneWay /\ [][NextOneWay]_vars

\* the transaction t has ended: its handle is released or the engine has no
\* active transaction on it
Usable(db) == db.open /\ db.inTransaction
Unusable(t) == ~Usable(txs[t].database)
BeginIssued(c) == \E k \in SqlCalls(c) : IsBegin(c[k].sql)

\* C16: the transitions of a transaction are one-way: once closed reports
\* true it reports true after every later step, and once the transaction
\* has ended (which is the case whenever the guard has rejected a call) no
\* operation makes it usable again: the handle is not reopened, no BEGIN
\* reaches the engine, and a guarded call made in that state is rejected
\* with TRANSACTION_CLOSED.
C16_OneWay ==
    [][\A t \in 1..Len(txs) :
         /\ Released(t) => Sqlite3Transaction_closed(txs'[t].database)
         /\ Unusable(t) =>
               /\ ~Usable(txs'[t].database)
               /\ txs[t].database.open \/ ~txs'[t].database.open
               /\ last'.tx = t => ~BeginIssued(last'.calls)
               /\ (last'.tx = t /\ last'.op \in GuardedTxCalls
                     /\ (last'.op = "batch" => last'.stmts # <<>>)) =>
                     GuardRejected(last')]_vars

C16_Witness ==
    \E t \in 1..Len(txs) :
        /\ last.tx = t /\ last.op \in {"execute", "executeMultiple", "batch"}
        /\ Len(last.stmts) > 0
        /\ IsBegin(last.stmts[Len(last.stmts)].sql)
        /\ last.err = TransactionClosedError
        /\ ~BeginIssued(last.calls)
        /\ Unusable(t)
        /\ ~Released(t)

\* ------------------------------------------------------------------------
\* SpecOrder: batches of the client and of a transaction over statements
\* that fetch rows, change rows and end the transaction
\* ------------------------------------------------------------------------
OrderLists == ListsUpTo(Strings({"SELECT", "INSERT", "COMMIT"}), MaxBatch)

InitOrder == Fresh({"number"})

NextOrder ==
    \/ ClientBatch(OrderLists, {"write"}, {})
    \/ ClientTransaction({"write"}, {})
    \/ \E t \in 1..Len(txs) : TxBatch(t, OrderLists, {"runErrRollback"})

SpecOrder == InitOrder /\ [][NextOrder]_vars

\* the engine calls made for the statement at position i of a batch
CallsAt(c, i) == {k \in 1..Len(c) : c[k].at = i}
ExecutedAt(c, i) == \E k \in CallsAt(c, i) : c[k].call \in {"run", "all"}
\* the statement at position i ran and ended the engine's transaction
EndedAt(c, i) == \E k \in CallsAt(c, i) : c[k].call = "run" /\ c[k].ok /\ IsEnd(c[k].sql)
BeginAt(c) == {k \in 1..Len(c) : c[k].call = "run" /\ IsBegin(c[k].sql)}
\* the result rs is the one of the calls made at position i
ResultAt(c, i, rs) ==
    /\ (\E k \in CallsAt(c, i) : c[k].call = "all" /\ c[k].ok) # (rs.columns = <<>>)
    /\ \A k \in CallsAt(c, i) :
          (c[k].call = "run" /\ c[k].ok) =>
              /\ rs.columns = <<>>
              /\ rs.rowsAffected = c[k].ret.changes
\* the transaction flag a batch starts from: set by the batch's own BEGIN,
\* or the flags of the transaction's handle
FlagAtStart(o) == IF o.tx = 0 THEN TRUE ELSE Usable(txs[o.tx].database)

\* C17: a batch (of the client, after its BEGIN, or of a transaction) hands
\* its statements to the engine in the given order, result i being the one
\* of statement i, and re-checks the transaction flag before each statement:
\* when the flag is found cleared the batch rejects with TRANSACTION_CLOSED,
\* that statement and every later one is not executed and no COMMIT is
\* issued by the batch.
C17_BatchInOrder ==
    [][(last'.op = "batch" /\ last'.err # ClientClosedError) =>
        LET c == last'.calls
            n == Len(last'.stmts)
        IN
        /\ \A j, k \in 1..Len(c) :
              (j < k /\ c[j].at \in 1..n /\ c[k].at \in 1..n) => c[j].at <= c[k].at
        /\ \A k \in 1..Len(c) : c[k].at \in 1..n => c[k].sql = last'.stmts[c[k].at].sql
        /\ \A i \in 2..n : CallsAt(c, i) # {} => ExecutedAt(c, i - 1)
        /\ last'.tx = 0 =>
              \A k \in 1..Len(c) : c[k].at > 0 => \E b \in BeginAt(c) : b < k /\ c[b].ok
        /\ last'.err = NoErr =>
              /\ Len(last'.results) = n
              /\ \A i \in 1..n : ExecutedAt(c, i) /\ ResultAt(c, i, last'.results[i])
        /\ \A i \in 1..n :
              (IF i = 1 THEN ~FlagAtStart(last') ELSE EndedAt(c, i - 1)) =>
                  /\ last'.err = TransactionClosedError
                  /\ \A m \in i..(n + 1) : CallsAt(c, m) = {}
        /\ last'.err = TransactionClosedError =>
              /\ CallsAt(c, n + 1) = {}
              /\ \E i \in 1..n :
                    /\ CallsAt(c, i) = {}
                    /\ IF i = 1 THEN ~FlagAtStart(last') ELSE EndedAt(c, i - 1)]_vars

C17_Witness ==
    /\ last.op = "batch" /\ last.tx = 0
    /\ Len(last.stmts) = 2
    /\ last.err = TransactionClosedError
    /\ EndedAt(last.calls, 1)
    /\ CallsAt(last.calls, 2) = {}
    /\ CallsAt(last.calls, 3) = {}

\* ------------------------------------------------------------------------
\* Properties of Sqlite3Client.transaction and Sqlite3Client.close (Spec)
\* ------------------------------------------------------------------------
\* transaction(mode) opened its handle
TransactionOpened(o) ==
    /\ o.op = "transaction"
    /\ o.calls # <<>>
    /\ o.calls[1] = OpenCall(TRUE)

\* C18: transaction(mode) issues the BEGIN of its mode, and nothing else, on
\* the handle it opened.  When BEGIN fails the handle is closed before the
\* error propagates and no transaction is created; when BEGIN succeeds the
\* client does not close the handle, which becomes the handle of the one new
\* transaction, open with closed reporting false.
C18_TransactionBegins ==
    [][TransactionOpened(last') =>
        LET c == last'.calls IN
        /\ SqlCalls(c) # {}
        /\ \A k \in SqlCalls(c) : c[k].sql = transactionModeToBegin(last'.mode)
        /\ Cardinality({k \in SqlCalls(c) : c[k].call = "prepare"}) = 1
        /\ last'.err # NoErr =>
              /\ EngineRejected(c)
              /\ c[Len(c)] = CloseCall
              /\ CloseCallsIn(c) = 1
              /\ txs' = txs
              /\ hist' = hist
              /\ handles' = handles
        /\ last'.err = NoErr =>
              /\ ~EngineRejected(c)
              /\ CloseCallsIn(c) = 0
              /\ Len(txs') = Len(txs) + 1
              /\ SubSeq(txs', 1, Len(txs)) = txs
              /\ txs'[Len(txs')].database = [open |-> TRUE, inTransaction |-> TRUE]
              /\ ~Sqlite3Transaction_closed(txs'[Len(txs')].database)
              /\ hist'[Len(txs')] = NewHist
              /\ handles' = handles + 1]_vars

C18_Witness ==
    /\ TransactionOpened(last)
    /\ last.err # NoErr
    /\ EngineRejected(last.calls)
    /\ last.calls[Len(last.calls)] = CloseCall
    /\ txs = <<>>

\* C19 (SpecBatch): the final COMMIT of Sqlite3Client.batch is sent only
\* while the engine's transaction is still active on the batch's handle:
\* when the last statement ran and ended the transaction, no COMMIT of the
\* batch reaches the engine.
C19_CommitOnlyInTransaction ==
    (last.op = "batch" /\ Len(last.stmts) > 0) =>
        (EndedAt(last.calls, Len(last.stmts)) =>
            CallsAt(last.calls, Len(last.stmts) + 1) = {})

\* a close() of the client
ClientCloseCalled == last'.op = "close" /\ last'.tx = 0

\* C20: close() of the client changes only the client's closed flag: the
\* transactions, their handles and the count of open handles are as before,
\* and on a closed client a transaction that is still usable keeps working:
\* its execute, batch, executeMultiple, commit and rollback reach the engine
\* and are rejected neither with CLIENT_CLOSED nor with TRANSACTION_CLOSED.
C20_ClientCloseOnlySetsFlag ==
    [][/\ ClientCloseCalled =>
            /\ closed'
            /\ last'.err = NoErr /\ last'.calls = <<>>
            /\ txs' = txs
            /\ hist' = hist
            /\ handles' = handles
            /\ intMode' = intMode
       /\ \A t \in 1..Len(txs) :
            (closed /\ last'.tx = t /\ Usable(txs[t].database)
               /\ last'.op \in GuardedTxCalls \cup {"rollback"}
               /\ (last'.op = "batch" => last'.stmts # <<>>)) =>
                  /\ last'.err \notin {ClientClosedError, TransactionClosedError}
                  /\ SqlCalls(last'.calls) # {}
                  /\ (last'.op \in {"commit", "rollback"} /\ last'.err = NoErr) =>
                        Sqlite3Transaction_closed(txs'[t].database)]_vars

C20_Witness ==
    \E t \in 1..Len(txs) :
        /\ closed
        /\ last.tx = t /\ last.op = "commit" /\ last.err = NoErr
        /\ SqlRun(last.calls, "COMMIT") = 1
        /\ hist[t].terminal = "committed"

====
